---- MODULE Spec2Model ----
(***************************************************************************)
(* Quamplex DSP Tools: fader, smoother, randomizer and math helpers.       *)
(*                                                                         *)
(* The C code computes in IEEE-754 binary32 (`float`).  The model keeps    *)
(* the arithmetic of that format -- every operation is the exact result    *)
(* rounded to the nearest representable value, ties to the even            *)
(* significand -- with a significand of Precision bits instead of 24.      *)
(* A float is held as an integer number of quanta; 1.0f is One quanta.     *)
(***************************************************************************)
EXTENDS Integers, Sequences, FiniteSets, TLC

\* ------------------------------------------------------------------------
\* Floating point
\* ------------------------------------------------------------------------
Precision == 4      \* bits of significand
OneExp == 5         \* 1.0f is 2^OneExp quanta

One == 2 ^ OneExp
Half == One \div 2

Abs(x) == IF x < 0 THEN -x ELSE x

\* spacing of the floats around the magnitude n/d, searched upward from q
RECURSIVE QuantumOf(_, _, _)
QuantumOf(n, d, q) ==
    IF n < d * q * (2 ^ Precision) THEN q ELSE QuantumOf(n, d, 2 * q)

\* n/d (n >= 0, d > 0) to the nearest integer, ties to even
RoundNearestEven(n, d) ==
    LET fl == n \div d
        r  == n - fl * d
    IN  IF 2 * r < d THEN fl
        ELSE IF 2 * r > d THEN fl + 1
        ELSE IF fl % 2 = 0 THEN fl ELSE fl + 1

RoundMag(n, d) ==
    LET q == QuantumOf(n, d, 1) IN q * RoundNearestEven(n, d * q)

\* the float nearest to the rational n/d, d > 0
fl_round(n, d) == IF n >= 0 THEN RoundMag(n, d) ELSE -RoundMag(-n, d)

IsFloat(v) == fl_round(v, 1) = v

f_add(a, b) == fl_round(a + b, 1)
f_sub(a, b) == fl_round(a - b, 1)
f_mul(a, b) == fl_round(a * b, One)
\* b /= 0
f_div(a, b) == IF b > 0 THEN fl_round(a * One, b) ELSE fl_round(-(a * One), -b)

\* (float)n for an integer n
int_to_float(n) == fl_round(n * One, 1)
\* (int)x : truncation toward zero
float_to_int(x) == IF x >= 0 THEN x \div One ELSE -((-x) \div One)

\* ------------------------------------------------------------------------
\* qx_math.h
\* ------------------------------------------------------------------------
qx_clamp_float_noupper(value, min, max) ==
    IF value < min THEN min ELSE value

qx_clamp_float(value, min, max) ==
    IF value < min THEN min ELSE (IF value > max THEN max ELSE value)

QX_CLAMP_upper_first(value, min, max) ==
    IF value > max THEN max ELSE (IF value < min THEN min ELSE value)

\* #define QX_CLAMP(value, min, max): the upper bound is compared only
\* when the value is not below the lower bound
QX_CLAMP(value, min, max) ==
    IF value < min
    THEN min
    ELSE IF value > max
         THEN max
         ELSE value

\* qx_clamp_float of the full qx_math.h, which expands QX_CLAMP
qx_clamp_float_macro(value, min, max) == QX_CLAMP(value, min, max)

\* ------------------------------------------------------------------------
\* State
\* ------------------------------------------------------------------------
VARIABLES
    fader,      \* struct qx_fader: [fade, step, enabled]
    f_op,       \* last fader operation: "init", "enable", "fade"
    f_val,      \* argument of the last qx_fader_fade
    f_ret,      \* value returned by the last qx_fader_fade
    f_calls,    \* qx_fader_fade calls since the last init / enable (saturating)
    f_before,   \* the struct as the last fader operation found it
    f_en,       \* argument of the last qx_fader_enable
    sm,         \* struct qx_smoother: [current, target, step, frames]
    s_op,       \* last smoother operation: "init", "set_target", "next"
    s_ret,      \* value returned by the last qx_smoother_next
    s_start,    \* current at the last init / set_target
    s_k,        \* qx_smoother_next calls since the last init / set_target (saturating)
    variant,    \* which randomizer is built: "header" (qx_randomizer.h) or "c" (radomizer.c)
    rnd,        \* the randomizer instances: instance -> struct qx_randomizer
    r_op,       \* last randomizer operation: [name, inst, arg], arg the resolution given
    r_base,     \* instance -> [min, max, resolution, seed] after its last configuration call
    r_outs,     \* instance -> values drawn since its last configuration call
    r_draws,    \* instance -> draws since its last init / set_seed
    ring,       \* qx_ring_interp_linear call: [buf, index, size]
    ring_out,   \* its outcome: [done, i1, i2, k, value]
    wrap_in,    \* qx_wrapf call: [x, max]
    wrap,       \* qx_wrapf in progress: [x, pc]
    clamp_in,   \* qx_clamp_float call: [value, min, max]
    clamp_out   \* its outcome: [done, cond, macro, cond2, macro2]

faderVars == <<fader, f_op, f_val, f_ret, f_calls, f_before, f_en>>
smootherVars == <<sm, s_op, s_ret, s_start, s_k>>

randomizerVars == <<variant, rnd, r_op, r_base, r_outs, r_draws>>

mathVars == <<ring, ring_out, wrap_in, wrap, clamp_in, clamp_out>>

vars == <<faderVars, smootherVars, randomizerVars, mathVars>>

\* a call on one component leaves the others alone
FaderOnly == UNCHANGED <<smootherVars, randomizerVars, mathVars>>
SmootherOnly == UNCHANGED <<faderVars, randomizerVars, mathVars>>
RandomizerOnly == UNCHANGED <<faderVars, smootherVars, mathVars>>
RingOnly ==
    UNCHANGED <<faderVars, smootherVars, randomizerVars, wrap_in, wrap, clamp_in, clamp_out>>
WrapOnly ==
    UNCHANGED <<faderVars, smootherVars, randomizerVars, ring, ring_out, clamp_in, clamp_out>>
ClampOnly ==
    UNCHANGED <<faderVars, smootherVars, randomizerVars, ring, ring_out, wrap_in, wrap>>

\* ------------------------------------------------------------------------
\* qx_fader.h
\* ------------------------------------------------------------------------
MaxCalls == 34      \* saturation of the call counter

\* the literal 1000.0f
Thousand == fl_round(1000 * One, 1)

FadeTimes == {-One, 0, Thousand, 2 * Thousand}
SampleRates == {One, 2 * One, 3 * One, 4 * One, 6 * One, 8 * One, 16 * One}
FadeVals == {-One, 0, Half, One}

qx_fader_init(fadeTime, sample_rate) ==
    [fade    |-> 0,
     enabled |-> FALSE,
     step    |-> IF fadeTime <= 0
                 THEN One
                 ELSE f_div(One, f_mul(f_div(fadeTime, Thousand), sample_rate))]

qx_fader_enable_nosnap(f, enabled) ==
    [f EXCEPT !.enabled = enabled]

qx_fader_enable(f, enabled) ==
    [f EXCEPT !.enabled = enabled, !.fade = IF enabled THEN 0 ELSE One]

qx_fader_fade(f) ==
    LET f1 == f_add(f.fade, IF f.enabled THEN f.step ELSE -f.step)
    IN  [f EXCEPT !.fade = qx_clamp_float(f1, 0, One)]

\* the fader after construction; at rest it is built once, with fixed arguments
FaderInit(active) ==
    /\ \E t \in IF active THEN FadeTimes ELSE {0},
          sr \in IF active THEN SampleRates ELSE {One} : fader = qx_fader_init(t, sr)
    /\ f_op = "init"
    /\ f_val = 0
    /\ f_ret = 0
    /\ f_calls = 0
    /\ f_before = fader
    /\ f_en = FALSE

FaderEnable(e) ==
    /\ fader' = qx_fader_enable(fader, e)
    /\ f_op' = "enable"
    /\ f_calls' = 0
    /\ f_before' = fader
    /\ f_en' = e
    /\ UNCHANGED <<f_val, f_ret>>
    /\ FaderOnly

FaderFade(val) ==
    /\ fader' = qx_fader_fade(fader)
    /\ f_op' = "fade"
    /\ f_val' = val
    /\ f_ret' = f_mul(val, fader'.fade)
    /\ f_calls' = IF f_calls < MaxCalls THEN f_calls + 1 ELSE f_calls
    /\ f_before' = fader
    /\ UNCHANGED f_en
    /\ FaderOnly

FaderNext ==
    \/ \E e \in BOOLEAN : FaderEnable(e)
    \/ \E v \in FadeVals : FaderFade(v)

\* ------------------------------------------------------------------------
\* qx_smoother.h
\* ------------------------------------------------------------------------
MaxFrames == 5      \* largest frame count given to qx_smoother_init
MaxNexts == 7       \* saturation of the call counter

SmValues == {-One, 0, 1, One, 5 * One, 9 * One}

qx_smoother_init(initial, frames) ==
    [current |-> initial,
     target  |-> initial,
     frames  |-> IF frames > 0 THEN frames ELSE 1,
     step    |-> 0]

qx_smoother_set_target(s, target) ==
    [s EXCEPT !.target = target,
              !.step = f_div(f_sub(target, s.current), int_to_float(s.frames))]

qx_smoother_next_noclamp(s) ==
    IF s.current = s.target
    THEN s
    ELSE [s EXCEPT !.current = f_add(s.current, s.step)]

qx_smoother_next(s) ==
    IF s.current = s.target
    THEN s
    ELSE LET c1 == f_add(s.current, s.step)
         IN  IF (s.step > 0 /\ c1 > s.target) \/ (s.step < 0 /\ c1 < s.target)
             THEN [s EXCEPT !.current = s.target]
             ELSE [s EXCEPT !.current = c1]

qx_smoother_get(s) == s.current

SmootherInit(active) ==
    /\ \E i \in IF active THEN SmValues ELSE {0},
          n \in IF active THEN 0..MaxFrames ELSE {1} : sm = qx_smoother_init(i, n)
    /\ s_op = "init"
    /\ s_ret = 0
    /\ s_start = sm.current
    /\ s_k = 0

SmootherSetTarget(t) ==
    /\ sm' = qx_smoother_set_target(sm, t)
    /\ s_op' = "set_target"
    /\ s_start' = sm.current
    /\ s_k' = 0
    /\ UNCHANGED s_ret
    /\ SmootherOnly

SmootherNextCall ==
    /\ sm' = qx_smoother_next(sm)
    /\ s_op' = "next"
    /\ s_ret' = qx_smoother_get(sm')
    /\ s_k' = IF s_k < MaxNexts THEN s_k + 1 ELSE s_k
    /\ UNCHANGED s_start
    /\ SmootherOnly

SmootherNext ==
    \/ \E t \in SmValues : SmootherSetTarget(t)
    \/ SmootherNextCall

\* ------------------------------------------------------------------------
\* uint32_t, held as two 16-bit limbs <<high, low>>
\* ------------------------------------------------------------------------
Limb == 2 ^ 16

u32(n) == <<n \div Limb, n % Limb>>

UINT32_MAX == <<Limb - 1, Limb - 1>>

\* a * x + c modulo 2^32, for a, c < 2^31
u32_mul_add(a, x, c) ==
    LET a_hi == a \div Limb
        a_lo == a % Limb
        c_hi == c \div Limb
        c_lo == c % Limb
        p0   == x[2] * a_lo
        s0   == (p0 % Limb) + c_lo
        hi   == (p0 \div Limb) + (s0 \div Limb)
                + ((x[1] * a_lo) % Limb) + ((x[2] * a_hi) % Limb) + c_hi
    IN  <<hi % Limb, s0 % Limb>>

RECURSIVE BitAnd(_, _)
BitAnd(a, b) ==
    IF a = 0 \/ b = 0 THEN 0
    ELSE (a % 2) * (b % 2) + 2 * BitAnd(a \div 2, b \div 2)

u32_and(x, m) == <<BitAnd(x[1], m[1]), BitAnd(x[2], m[2])>>

\* (float)x / (float)UINT32_MAX, where (float)UINT32_MAX = 2^32: the float
\* nearest to x / 2^32 (the low limb only decides ties)
u32_normalized(x) ==
    fl_round(2 * x[1] + (IF x[2] = 0 THEN 0 ELSE 1), 2 * (Limb \div One))

\* ------------------------------------------------------------------------
\* qx_randomizer.h (struct with cached fields, bucket quantization)
\* ------------------------------------------------------------------------
DefaultSeed == 856382025
LcgMul == 1664525
LcgInc == 1013904223

\* what a float-to-int conversion of an infinity or a NaN can produce
UndefinedInts == {-8, 0, 8}

\* (int)(range / resolution + 0.5f)
MaxStepsOutcomes(range, resolution) ==
    IF resolution = 0
    THEN UndefinedInts
    ELSE {float_to_int(f_add(f_div(range, resolution), Half))}

qx_randomizer_init(min, max, resolution, steps) ==
    [seed         |-> u32(DefaultSeed),
     min          |-> min,
     max          |-> max,
     resolution   |-> resolution,
     range        |-> f_sub(max, min),
     inv_max_uint |-> -32,       \* 1.0f / (float)UINT32_MAX = 2^-32, as its exponent
     max_steps    |-> steps]

qx_randomizer_set_seed(r, seed) == [r EXCEPT !.seed = seed]

qx_randomizer_set_range(r, min, max, steps) ==
    [r EXCEPT !.min = min, !.max = max, !.range = f_sub(max, min),
              !.max_steps = steps]

qx_randomizer_set_resolution_stale(r, resolution, steps) ==
    [r EXCEPT !.resolution = resolution]

qx_randomizer_set_resolution(r, resolution, steps) ==
    [r EXCEPT !.resolution = resolution, !.max_steps = steps]

\* the struct after qx_randomizer_get_float
qx_randomizer_get_float(r) ==
    [r EXCEPT !.seed = u32_mul_add(LcgMul, r.seed, LcgInc)]

\* the value qx_randomizer_get_float returns, r1 the struct after the call
qx_randomizer_get_float_value(r1) ==
    LET normalized == u32_normalized(r1.seed)
        step0 == float_to_int(f_mul(normalized, int_to_float(r1.max_steps + 1)))
        step  == IF step0 > r1.max_steps THEN r1.max_steps ELSE step0
    IN  f_add(r1.min, f_mul(int_to_float(step), r1.resolution))

\* ------------------------------------------------------------------------
\* radomizer.c (opaque struct, round to nearest step and clamp)
\* ------------------------------------------------------------------------
LCG_A == 1664525
LCG_C == 1013904223
LCG_M == UINT32_MAX
qx_randomizer_default_seed == 305419896      \* 0x12345678

\* the mask of a generator with modulus 2^31
qx_randomizer_next_seed_m31(current_seed) ==
    u32_and(u32_mul_add(LCG_A, current_seed, LCG_C), <<(Limb \div 2) - 1, Limb - 1>>)

qx_randomizer_next_seed(current_seed) ==
    u32_and(u32_mul_add(LCG_A, current_seed, LCG_C), LCG_M)

c_qx_randomizer_init(min, max, resolution) ==
    [min        |-> min,
     max        |-> max,
     resolution |-> IF resolution <= 0 THEN One ELSE resolution,
     seed       |-> u32(qx_randomizer_default_seed)]

c_qx_randomizer_set_seed(r, seed) == [r EXCEPT !.seed = seed]

c_qx_randomizer_get_float(r) ==
    [r EXCEPT !.seed = qx_randomizer_next_seed(r.seed)]

c_qx_randomizer_get_float_value(r1) ==
    LET normalized == u32_normalized(r1.seed)
        range      == f_sub(r1.max, r1.min)
        value      == f_add(r1.min, f_mul(normalized, range))
        steps      == f_div(f_sub(value, r1.min), r1.resolution)
        steps_int  == float_to_int(f_add(steps, Half))
        quantized_value == f_add(r1.min, f_mul(int_to_float(steps_int), r1.resolution))
    IN  IF quantized_value < r1.min THEN r1.min
        ELSE IF quantized_value > r1.max THEN r1.max
        ELSE quantized_value

\* ------------------------------------------------------------------------
\* Randomizer operations on the instances
\* ------------------------------------------------------------------------
MaxDraws == 2       \* draws per instance after an init / set_seed

Insts == {1, 2}
RndRanges == {<<0, One>>, <<One, One>>, <<One, 3 * One>>}
RndResolutions == {-Half, 0, 12, Half, One}
RndSeeds == {u32(42), <<9973, 46880>>, <<19573, 65060>>}

\* the smaller inputs of the two-instance specification
PairRanges == {<<0, One>>, <<One, 3 * One>>}
PairResolutions == {0, 12, One}
PairSeeds == {<<9973, 46880>>}

Base(r) == [min |-> r.min, max |-> r.max, resolution |-> r.resolution, seed |-> r.seed]

Configured(i, r, name, arg, draws) ==
    /\ rnd' = [rnd EXCEPT ![i] = r]
    /\ r_op' = [name |-> name, inst |-> i, arg |-> arg]
    /\ r_base' = [r_base EXCEPT ![i] = Base(r)]
    /\ r_outs' = [r_outs EXCEPT ![i] = <<>>]
    /\ r_draws' = [r_draws EXCEPT ![i] = draws]
    /\ UNCHANGED variant
    /\ RandomizerOnly

RandomizerInitCall(i, mm, res) ==
    IF variant = "header"
    THEN \E steps \in MaxStepsOutcomes(f_sub(mm[2], mm[1]), res) :
             Configured(i, qx_randomizer_init(mm[1], mm[2], res, steps), "init", res, 0)
    ELSE Configured(i, c_qx_randomizer_init(mm[1], mm[2], res), "init", res, 0)

RandomizerSetSeed(i, seed) ==
    IF variant = "header"
    THEN Configured(i, qx_randomizer_set_seed(rnd[i], seed), "set_seed", 0, 0)
    ELSE Configured(i, c_qx_randomizer_set_seed(rnd[i], seed), "set_seed", 0, 0)

RandomizerSetRange(i, mm) ==
    /\ variant = "header"
    /\ \E steps \in MaxStepsOutcomes(f_sub(mm[2], mm[1]), rnd[i].resolution) :
           Configured(i, qx_randomizer_set_range(rnd[i], mm[1], mm[2], steps),
                      "set_range", 0, r_draws[i])

RandomizerSetResolution(i, res) ==
    /\ variant = "header"
    /\ \E steps \in MaxStepsOutcomes(rnd[i].range, res) :
           Configured(i, qx_randomizer_set_resolution(rnd[i], res, steps),
                      "set_resolution", res, r_draws[i])

\* a generator whose seed is one static variable shared by every instance
RandomizerGetFloatSharedSeed(i) ==
    /\ r_draws[i] < MaxDraws
    /\ LET r1 == IF variant = "header"
                 THEN qx_randomizer_get_float(rnd[i])
                 ELSE c_qx_randomizer_get_float(rnd[i])
           v  == IF variant = "header"
                 THEN qx_randomizer_get_float_value(r1)
                 ELSE c_qx_randomizer_get_float_value(r1)
       IN  /\ rnd' = [j \in Insts |-> [rnd[j] EXCEPT !.seed = r1.seed]]
           /\ r_outs' = [r_outs EXCEPT ![i] = Append(@, v)]
    /\ r_draws' = [r_draws EXCEPT ![i] = @ + 1]
    /\ r_op' = [name |-> "get_float", inst |-> i, arg |-> 0]
    /\ UNCHANGED <<variant, r_base>>
    /\ RandomizerOnly

RandomizerGetFloat(i) ==
    /\ r_draws[i] < MaxDraws
    /\ LET r1 == IF variant = "header"
                 THEN qx_randomizer_get_float(rnd[i])
                 ELSE c_qx_randomizer_get_float(rnd[i])
           v  == IF variant = "header"
                 THEN qx_randomizer_get_float_value(r1)
                 ELSE c_qx_randomizer_get_float_value(r1)
       IN  /\ rnd' = [rnd EXCEPT ![i] = r1]
           /\ r_outs' = [r_outs EXCEPT ![i] = Append(@, v)]
    /\ r_draws' = [r_draws EXCEPT ![i] = @ + 1]
    /\ r_op' = [name |-> "get_float", inst |-> i, arg |-> 0]
    /\ UNCHANGED <<variant, r_base>>
    /\ RandomizerOnly

\* both instances are constructed with the same arguments
RandomizerInit(variants, ranges, resolutions) ==
    /\ variant \in variants
    /\ \E mm \in ranges, res \in resolutions :
          /\ r_op = [name |-> "init", inst |-> 1, arg |-> res]
          /\ IF variant = "header"
             THEN \E steps \in MaxStepsOutcomes(f_sub(mm[2], mm[1]), res) :
                      rnd = [i \in Insts |-> qx_randomizer_init(mm[1], mm[2], res, steps)]
             ELSE rnd = [i \in Insts |-> c_qx_randomizer_init(mm[1], mm[2], res)]
    /\ r_base = [i \in Insts |-> Base(rnd[i])]
    /\ r_outs = [i \in Insts |-> <<>>]
    /\ r_draws = [i \in Insts |-> 0]

\* the calls on instance 1 alone
RandomizerNext ==
    \/ \E mm \in RndRanges, res \in RndResolutions : RandomizerInitCall(1, mm, res)
    \/ \E seed \in RndSeeds : RandomizerSetSeed(1, seed)
    \/ \E mm \in RndRanges : RandomizerSetRange(1, mm)
    \/ \E res \in RndResolutions : RandomizerSetResolution(1, res)
    \/ RandomizerGetFloat(1)

\* the calls on two instances, interleaved
RandomizerPairNext ==
    \/ \E i \in Insts, mm \in PairRanges, res \in PairResolutions : RandomizerInitCall(i, mm, res)
    \/ \E i \in Insts, seed \in PairSeeds : RandomizerSetSeed(i, seed)
    \/ \E i \in Insts, mm \in PairRanges : RandomizerSetRange(i, mm)
    \/ \E i \in Insts, res \in PairResolutions : RandomizerSetResolution(i, res)
    \/ \E i \in Insts : RandomizerGetFloat(i)

\* ------------------------------------------------------------------------
\* qx_math.h: qx_ring_interp_linear
\* ------------------------------------------------------------------------
MaxSize == 4        \* longest buffer

RingSamples == {One, 2 * One, 3 * One, 4 * One}
RingBufs == UNION {[1..n -> RingSamples] : n \in 1..MaxSize}
RingIndexes(size) == {x \in 0..((size + 1) * One - 1) : IsFloat(x)}

\* buf[i]: an element of the buffer, or whatever lies behind it
RingRead(buf, size, i) ==
    IF i >= 0 /\ i < size THEN {buf[i + 1]} ELSE RingSamples \cup {0}

\* the positions read and the weight, as the function computes them
qx_ring_interp_linear(index, size) ==
    LET i10 == float_to_int(index)
        i20 == i10 + 1
        i1  == IF i10 >= size THEN i10 - size ELSE i10
        i2  == IF i20 >= size THEN i20 - size ELSE i20
        k   == f_sub(index, int_to_float(i1))
    IN  [i1 |-> i1, i2 |-> i2, k |-> k]

RingInit(active) ==
    /\ \E buf \in IF active THEN RingBufs ELSE {<<One>>} :
          \E index \in IF active THEN RingIndexes(Len(buf)) ELSE {0} :
              ring = [buf |-> buf, index |-> index, size |-> Len(buf)]
    /\ ring_out = [done |-> FALSE, i1 |-> 0, i2 |-> 0, k |-> 0, value |-> 0]

RingInterp ==
    /\ ~ring_out.done
    /\ LET p == qx_ring_interp_linear(ring.index, ring.size)
       IN  \E b1 \in RingRead(ring.buf, ring.size, p.i1),
              b2 \in RingRead(ring.buf, ring.size, p.i2) :
               ring_out' = [done |-> TRUE, i1 |-> p.i1, i2 |-> p.i2, k |-> p.k,
                            value |-> f_add(b1, f_mul(p.k, f_sub(b2, b1)))]
    /\ UNCHANGED ring
    /\ RingOnly

RingNext == RingInterp

\* ------------------------------------------------------------------------
\* qx_math.h: qx_wrapf
\* ------------------------------------------------------------------------
WrapRange == 4      \* |x| <= WrapRange * 1.0f

WrapXs == {x \in (-(WrapRange * One))..(WrapRange * One) : IsFloat(x)}
WrapMaxs == {1, Half, One, 3 * Half}

\* at rest no call is in progress
WrapInit(active) ==
    /\ \E x \in IF active THEN WrapXs ELSE {0},
          max \in IF active THEN WrapMaxs ELSE {One} : wrap_in = [x |-> x, max |-> max]
    /\ wrap = [x |-> wrap_in.x, pc |-> IF active THEN "while_neg" ELSE "done"]

\* while (x < 0.0f) x += max;
\* When the sum rounds back to x the statement runs and leaves x as it was:
\* the loop keeps running without ever changing the state.
WrapAdd ==
    /\ wrap.pc = "while_neg" /\ wrap.x < 0
    /\ wrap' = [wrap EXCEPT !.x = f_add(wrap.x, wrap_in.max)]
    /\ UNCHANGED wrap_in
    /\ WrapOnly

WrapAddExit ==
    /\ wrap.pc = "while_neg" /\ ~(wrap.x < 0)
    /\ wrap' = [wrap EXCEPT !.pc = "while_ge"]
    /\ UNCHANGED wrap_in
    /\ WrapOnly

\* while (x >= max) x -= max;
WrapSub ==
    /\ wrap.pc = "while_ge" /\ wrap.x >= wrap_in.max
    /\ wrap' = [wrap EXCEPT !.x = f_sub(wrap.x, wrap_in.max)]
    /\ UNCHANGED wrap_in
    /\ WrapOnly

\* return x;
WrapReturn ==
    /\ wrap.pc = "while_ge" /\ ~(wrap.x >= wrap_in.max)
    /\ wrap' = [wrap EXCEPT !.pc = "done"]
    /\ UNCHANGED wrap_in
    /\ WrapOnly

WrapNext == WrapAdd \/ WrapAddExit \/ WrapSub \/ WrapReturn

\* ------------------------------------------------------------------------
\* qx_math.h: qx_clamp_float, both definitions
\* ------------------------------------------------------------------------
ClampValues == {-One, 0, Half, 5 * One, 10 * One, 11 * One}

\* the arguments of a call; the bounds come in either order
ClampInit(active) ==
    /\ \E value \in IF active THEN ClampValues ELSE {0},
          min \in IF active THEN ClampValues ELSE {0},
          max \in IF active THEN ClampValues ELSE {One} :
              clamp_in = [value |-> value, min |-> min, max |-> max]
    /\ clamp_out = [done |-> FALSE, cond |-> 0, macro |-> 0, cond2 |-> 0, macro2 |-> 0]

\* each definition is called on the arguments, and again on its own result
ClampCall ==
    /\ ~clamp_out.done
    /\ LET c == qx_clamp_float(clamp_in.value, clamp_in.min, clamp_in.max)
           m == qx_clamp_float_macro(clamp_in.value, clamp_in.min, clamp_in.max)
       IN  clamp_out' = [done   |-> TRUE,
                         cond   |-> c,
                         macro  |-> m,
                         cond2  |-> qx_clamp_float(c, clamp_in.min, clamp_in.max),
                         macro2 |-> qx_clamp_float_macro(m, clamp_in.min, clamp_in.max)]
    /\ UNCHANGED clamp_in
    /\ ClampOnly

ClampNext == ClampCall

\* ------------------------------------------------------------------------
\* Specifications: one per component, the others at rest
\* ------------------------------------------------------------------------
InitFader ==
    /\ FaderInit(TRUE) /\ SmootherInit(FALSE) /\ RingInit(FALSE) /\ WrapInit(FALSE)
    /\ ClampInit(FALSE)
    /\ RandomizerInit({"c"}, {<<0, One>>}, {One})

InitSmoother ==
    /\ FaderInit(FALSE) /\ SmootherInit(TRUE) /\ RingInit(FALSE) /\ WrapInit(FALSE)
    /\ ClampInit(FALSE)
    /\ RandomizerInit({"c"}, {<<0, One>>}, {One})

InitRandomizer ==
    /\ FaderInit(FALSE) /\ SmootherInit(FALSE) /\ RingInit(FALSE) /\ WrapInit(FALSE)
    /\ ClampInit(FALSE)
    /\ RandomizerInit({"header", "c"}, RndRanges, {res \in RndResolutions : res > 0})

InitRandomizerPair ==
    /\ FaderInit(FALSE) /\ SmootherInit(FALSE) /\ RingInit(FALSE) /\ WrapInit(FALSE)
    /\ ClampInit(FALSE)
    /\ RandomizerInit({"header", "c"}, PairRanges, {res \in PairResolutions : res > 0})

InitRing ==
    /\ FaderInit(FALSE) /\ SmootherInit(FALSE) /\ RingInit(TRUE) /\ WrapInit(FALSE)
    /\ ClampInit(FALSE)
    /\ RandomizerInit({"c"}, {<<0, One>>}, {One})

InitWrap ==
    /\ FaderInit(FALSE) /\ SmootherInit(FALSE) /\ RingInit(FALSE) /\ WrapInit(TRUE)
    /\ ClampInit(FALSE)
    /\ RandomizerInit({"c"}, {<<0, One>>}, {One})

InitClamp ==
    /\ FaderInit(FALSE) /\ SmootherInit(FALSE) /\ RingInit(FALSE) /\ WrapInit(FALSE)
    /\ RandomizerInit({"c"}, {<<0, One>>}, {One})
    /\ ClampInit(TRUE)

SpecFader == InitFader /\ [][FaderNext]_vars

SpecSmoother == InitSmoother /\ [][SmootherNext]_vars

SpecRandomizer == InitRandomizer /\ [][RandomizerNext]_vars

SpecRandomizerPair == InitRandomizerPair /\ [][RandomizerPairNext]_vars

SpecRing == InitRing /\ [][RingNext]_vars

\* the call runs on: a statement that can execute does execute
SpecWrap == InitWrap /\ [][WrapNext]_vars /\ WF_vars(WrapNext)

SpecClamp == InitClamp /\ [][ClampNext]_vars

\* ------------------------------------------------------------------------
\* Fader properties
\* ------------------------------------------------------------------------
CeilDiv(n, d) == (n + d - 1) \div d

FadeTarget == IF fader.enabled THEN One ELSE 0

\* C1: for a fader with step > 0, after any sequence of enable and fade
\* calls the stored fade lies in [0, 1], and each qx_fader_fade(val) has
\* returned val multiplied by the fade stored after that call.
C1_FadeInUnitRange ==
    fader.step > 0 =>
        /\ 0 <= fader.fade /\ fader.fade <= One
        /\ (f_op = "fade" => f_ret = f_mul(f_val, fader.fade))

\* a fade call that left the fade strictly inside (0, 1) and scaled a sample
C1_Witness ==
    /\ f_op = "fade"
    /\ fader.step > 0
    /\ 0 < fader.fade /\ fader.fade < One
    /\ f_val = One
    /\ f_ret = fader.fade

\* C2: after an enable call, successive fade calls give a fade that moves
\* monotonically toward the target (1 when enabled, 0 when disabled), that
\* equals the target after at most ceil(1/step) calls, and that stays there.
C2_ConvergesWithinBound ==
    /\ [][(f_op' = "fade" /\ fader.step > 0) =>
             IF fader.enabled THEN fader'.fade >= fader.fade
                              ELSE fader'.fade <= fader.fade]_vars
    /\ [](fader.step > 0 /\ f_calls >= CeilDiv(One, fader.step)
             => fader.fade = FadeTarget)

\* C12: qx_fader_enable(e), called in any state of the fader (in the middle
\* of a ramp, or with enabled already equal to e), leaves enabled = e and
\* the fade at 0 when e is true and at 1 when e is false, whatever the
\* fade was, and leaves step as it was; the ramp that follows starts at
\* the extreme opposite to its target.
C12_EnableSnapsFade ==
    f_op = "enable" =>
        /\ fader.enabled = f_en
        /\ fader.fade = (IF f_en THEN 0 ELSE One)
        /\ fader.step = f_before.step
        /\ fader.fade = One - FadeTarget

\* enable(true) on a fader that was enabled already and in the middle of
\* its ramp: the fade is back at 0
C12_Witness ==
    /\ f_op = "enable"
    /\ f_en /\ f_before.enabled
    /\ 0 < f_before.fade /\ f_before.fade < One
    /\ fader.fade = 0
    /\ fader.step = f_before.step

\* ------------------------------------------------------------------------
\* Smoother properties
\* ------------------------------------------------------------------------
\* C3: after set_target(t) in any state, followed by N = frames consecutive
\* next calls, the k-th call has returned start + k*(t - start)/N, so that
\* current equals t exactly after the N-th; every further next returns t and
\* leaves current at t.
C3_ReachesTargetInFrames ==
    s_op = "next" =>
        /\ s_ret = sm.current
        /\ IF s_k <= sm.frames
           THEN s_ret * sm.frames = s_start * sm.frames + s_k * (sm.target - s_start)
           ELSE s_ret = sm.target

\* C4: a qx_smoother_next call never moves current past target and never
\* moves it away from target, whatever set_target and next calls came before.
C4_NoOvershoot ==
    [][s_op' = "next" =>
          /\ (sm.current <= sm.target =>
                 sm.current <= sm'.current /\ sm'.current <= sm'.target)
          /\ (sm.current >= sm.target =>
                 sm.current >= sm'.current /\ sm'.current >= sm'.target)]_vars

\* a next call that landed on target although the steps taken since the
\* set_target add up to more than the distance: the clamp acted
C4_Witness ==
    /\ s_op = "next"
    /\ sm.current = sm.target
    /\ s_start /= sm.target
    /\ s_k >= 1 /\ s_k <= sm.frames
    /\ s_start + s_k * sm.step /= sm.target
    /\ Abs(s_start + s_k * sm.step - s_start) > Abs(sm.target - s_start)

\* ------------------------------------------------------------------------
\* Randomizer properties
\* ------------------------------------------------------------------------
\* the instance of the last call and the value its last draw returned
LastInst == rnd[r_op.inst]
LastDraw == r_outs[r_op.inst][Len(r_outs[r_op.inst])]

ValidConfig(r) == r.min <= r.max /\ r.resolution > 0

\* C5: with min <= max and resolution > 0, every value returned by
\* qx_randomizer_get_float satisfies min <= value <= max.
C5_DrawInRange ==
    (r_op.name = "get_float" /\ ValidConfig(LastInst)) =>
        LastInst.min <= LastDraw /\ LastDraw <= LastInst.max

\* largest step index a draw can have in the configurations explored
MaxStepIndex == 2 * (2 ^ Precision)

OnGrid(r, v, kmax) ==
    \E k \in 0..kmax : v = f_add(r.min, f_mul(int_to_float(k), r.resolution))

\* C6: with min <= max and resolution > 0, every value returned by
\* qx_randomizer_get_float is min + k*resolution for an integer k >= 0,
\* with k <= max_steps in the bucket variant.
C6_DrawOnGrid ==
    (r_op.name = "get_float" /\ ValidConfig(LastInst)) =>
        IF variant = "header"
        THEN OnGrid(LastInst, LastDraw, LastInst.max_steps)
        ELSE OnGrid(LastInst, LastDraw, MaxStepIndex)

Min2(a, b) == IF a < b THEN a ELSE b

\* C7: two instances given the same min, max, resolution and seed return the
\* same value on their n-th draw for every n, however their calls are
\* interleaved, and a draw on one instance changes no field of the other.
C7_Reproducible ==
    /\ [](r_base[1] = r_base[2] =>
             \A n \in 1..Min2(Len(r_outs[1]), Len(r_outs[2])) :
                 r_outs[1][n] = r_outs[2][n])
    /\ [][\A i \in Insts :
             (r_op'.name = "get_float" /\ r_op'.inst = i) =>
                 \A j \in Insts \ {i} : rnd'[j] = rnd[j]]_vars

\* both instances reseeded alike and drawn from twice, the draws differing
C7_Witness ==
    /\ r_base[1] = r_base[2]
    /\ r_base[1].seed \in PairSeeds
    /\ r_base[1].resolution > 0
    /\ Len(r_outs[1]) = MaxDraws /\ Len(r_outs[2]) = MaxDraws
    /\ r_outs[1][1] /= r_outs[1][2]
    /\ r_outs[2] = r_outs[1]

\* C8: qx_randomizer_init given a resolution <= 0 stores 1.0 instead, so the
\* stored resolution is > 0 after init and the derived step count is the one
\* of the stored resolution.
C8_InitDefaultsResolution ==
    r_op.name = "init" =>
        /\ LastInst.resolution > 0
        /\ LastInst.resolution = (IF r_op.arg <= 0 THEN One ELSE r_op.arg)
        /\ (variant = "header" =>
               LastInst.max_steps \in MaxStepsOutcomes(LastInst.range, LastInst.resolution))

\* round(x) for x >= 0, as the configuration calls compute it
RoundToInt(x) == float_to_int(f_add(x, Half))

\* the fields other than seed
Config(r) == [r EXCEPT !.seed = <<0, 0>>]

PlusMod32(x, y) ==
    LET lo == x[2] + y[2]
    IN  <<(x[1] + y[1] + (lo \div Limb)) % Limb, lo % Limb>>

\* a * x modulo 2^32, by doubling along the binary digits of a
RECURSIVE TimesMod32(_, _)
TimesMod32(a, x) ==
    IF a = 0
    THEN <<0, 0>>
    ELSE LET h == TimesMod32(a \div 2, x)
             d == PlusMod32(h, h)
         IN  IF a % 2 = 1 THEN PlusMod32(d, x) ELSE d

\* (seed * 1664525 + 1013904223) mod 2^32
LcgStep(seed) == PlusMod32(TimesMod32(1664525, seed), u32(1013904223))

\* C14: each qx_randomizer_get_float replaces the seed by
\* (seed * 1664525 + 1013904223) mod 2^32, for every seed, also when the
\* product overflows 32 bits, in both variants (the mask of radomizer.c
\* gives the value of the unsigned wrap-around of the header), and leaves
\* every other field of the struct as it was.
C14_SeedAdvancesByLcg ==
    [][r_op'.name = "get_float" =>
          /\ rnd'[1].seed = LcgStep(rnd[1].seed)
          /\ Config(rnd'[1]) = Config(rnd[1])]_vars

\* one draw of radomizer.c from seed 653637408, whose product overflows:
\* the seed is 0xFFFFFFFF
C14_Witness ==
    /\ variant = "c"
    /\ r_op.name = "get_float"
    /\ Len(r_outs[1]) = 1
    /\ r_base[1].seed = <<9973, 46880>>
    /\ rnd[1].seed = UINT32_MAX

\* ------------------------------------------------------------------------
\* Math properties
\* ------------------------------------------------------------------------
RingExpected ==
    LET fl == float_to_int(ring.index)
        a  == fl % ring.size
        b  == (fl + 1) % ring.size
        f  == f_sub(ring.index, int_to_float(fl))
    IN  f_add(ring.buf[a + 1], f_mul(f, f_sub(ring.buf[b + 1], ring.buf[a + 1])))

\* C9: for size >= 1 and 0 <= index < size + 1, qx_ring_interp_linear
\* returns buf[a] + f*(buf[b] - buf[a]) with a = floor(index) mod size,
\* b = (floor(index) + 1) mod size and f the fractional part of index.
C9_RingInterpolates ==
    ring_out.done => ring_out.value = RingExpected

\* C15: for every size >= 1, size = 1 included, and 0 <= index < size + 1,
\* both buffer positions qx_ring_interp_linear reads after its single wrap
\* lie in 0 .. size-1.
C15_RingReadsInsideBuffer ==
    ring_out.done =>
        /\ ring_out.i1 \in 0..(ring.size - 1)
        /\ ring_out.i2 \in 0..(ring.size - 1)

\* C10: for every x and every max > 0, qx_wrapf terminates and returns the
\* r with 0 <= r < max such that x - r is an integer multiple of max.
C10_WrapTerminates ==
    <>(/\ wrap.pc = "done"
       /\ 0 <= wrap.x /\ wrap.x < wrap_in.max
       /\ (wrap_in.x - wrap.x) % wrap_in.max = 0)

\* ------------------------------------------------------------------------
\* Clamp properties
\* ------------------------------------------------------------------------
\* C11: for every value, lo and hi, lo > hi included, both definitions of
\* qx_clamp_float return lo when value < lo, otherwise hi when value > hi,
\* otherwise value, so they agree; when lo <= hi the result lies in
\* [lo, hi] and clamping the result again returns it unchanged.
C11_ClampDefinitionsAgree ==
    clamp_out.done =>
        LET value == clamp_in.value
            lo    == clamp_in.min
            hi    == clamp_in.max
        IN  /\ \A r \in {clamp_out.cond, clamp_out.macro} :
                  /\ (value < lo => r = lo)
                  /\ (value >= lo /\ value > hi => r = hi)
                  /\ (value >= lo /\ value <= hi => r = value)
                  /\ (lo <= hi => lo <= r /\ r <= hi)
            /\ clamp_out.cond = clamp_out.macro
            /\ (lo <= hi => /\ clamp_out.cond2 = clamp_out.cond
                            /\ clamp_out.macro2 = clamp_out.macro)

\* a value below the lower and above the upper bound of an inverted range:
\* both definitions give the lower bound
C11_Witness ==
    /\ clamp_out.done
    /\ clamp_in.min > clamp_in.max
    /\ clamp_in.value < clamp_in.min /\ clamp_in.value > clamp_in.max
    /\ clamp_out.cond = clamp_in.min
    /\ clamp_out.macro = clamp_in.min
====
